---- MODULE Spec2Model ----
(***************************************************************************)
(* Model of src/main.py: a crawler that polls a front page, filters the    *)
(* entries it has not processed yet, and for each of them downloads the    *)
(* primary document and, concurrently, every absolute link found on its    *)
(* discussion page.                                                        *)
(*                                                                         *)
(* Granularity: one action per resumption of a coroutine, i.e. per         *)
(* `await` of main.py.  The synchronous code between two awaits belongs    *)
(* to the action of the await that precedes it.                            *)
(***************************************************************************)
EXTENDS Integers, Sequences, FiniteSets, TLC

\* ---------------------------------------------------------------- bounds
MaxRows == 2        \* longest front page (number of tr.athing rows)
MaxHrefs == 2       \* longest discussion page (number of <a href> elements)
MaxParseRows == 6   \* longest front page given to parse_top_news on its own

\* ------------------------------------------------------ program constants
TOP_N == 5
CRAWL_INTERVAL == 300

\* ------------------------------------------------------------ input sets
Ids == {"a", "b"}
Urls == {"u"}

\* a tr.athing row: its id attribute, the href of its title link, and
\* whether it has a span.titleline holding an <a> at all
Rows == [id : Ids, url : Urls, title : BOOLEAN]
\* an <a href=...> of a discussion page
Href(s, r) == [scheme |-> s, rest |-> r]
Hrefs == {Href("http://", "x"), Href("https://", "y"), Href("", "x")}

SeqsUpTo(S, n) == UNION {[1..m -> S] : m \in 0..n}

\* --------------------------------------------------- values fetch returns
\* fetch returns None, or the body: the empty string or a non-empty text
\* whose elements (rows, hrefs) the parsers look at
None == [kind |-> "None", elems |-> <<>>]
EmptyStr == [kind |-> "empty", elems |-> <<>>]
Text(elems) == [kind |-> "str", elems |-> elems]
\* a local of a function that is not running
Unset == [kind |-> "unset", elems |-> <<>>]

\* Python truth value of a str | None:  `not x`
Falsy(x) == x.kind # "str"

\* what one GET of a kind of document can return (fetch, lines 14-21)
fetch(bodies) == {None, EmptyStr} \cup {Text(b) : b \in bodies}

FrontPages == SeqsUpTo(Rows, MaxRows)
ThreadPages == SeqsUpTo(Hrefs, MaxHrefs)
PlainPages == {<<>>}

\* ------------------------------------------------------------ the parsers
Min(a, b) == IF a < b THEN a ELSE b

HasTitle(row) == row.title

\* variant: the rows without a title link skipped first, then the first
\* TOP_N of the others taken
parse_top_news_FirstNValid(html) ==
    LET kept == SelectSeq(html.elems, HasTitle)
        firstN == SubSeq(kept, 1, Min(TOP_N, Len(kept)))
    IN [i \in 1..Len(firstN) |-> <<firstN[i].id, firstN[i].url>>]

\* parse_top_news: rows[:TOP_N], rows without a title link skipped
parse_top_news(html) ==
    LET rows == html.elems
        firstN == SubSeq(rows, 1, Min(TOP_N, Len(rows)))
        kept == SelectSeq(firstN, HasTitle)
    IN [i \in 1..Len(kept) |-> <<kept[i].id, kept[i].url>>]

\* the href test of get_comments_links
IsAbsolute(href) == href.scheme = "http://" \/ href.scheme = "https://"

\* the loop of get_comments_links over soup.find_all('a', href=True)
ExtractLinks(pg) ==
    {pg.elems[i] : i \in {j \in DOMAIN pg.elems : IsAbsolute(pg.elems[j])}}

\* variant: the comprehension without its `if nid not in seen_news`
FilterNew_NoFilter(top_news, seen) == top_news

\* variant: the new entries collected in reverse order
FilterNew_Reversed(top_news, seen) ==
    LET NotSeen(e) == e[1] \notin seen
        kept == SelectSeq(top_news, NotSeen)
    IN [i \in 1..Len(kept) |-> kept[Len(kept) + 1 - i]]

\* the list comprehension of main: entries whose id is not in seen_news
FilterNew(top_news, seen) ==
    LET NotSeen(e) == e[1] \notin seen
    IN SelectSeq(top_news, NotSeen)

\* iteration orders of a Python set: enumerate(news_links) may visit the
\* links in any order
Orderings(S) ==
    {f \in [1..Cardinality(S) -> S] : \A i, j \in DOMAIN f : f[i] = f[j] => i = j}

\* ------------------------------------------------------------- file names
NewsFile == <<"news.html", 0>>
CommentFile(k) == <<"comment_.html", k>>

\* ------------------------------------------------------------------ state
VARIABLES
    pc,          \* where main() is suspended
    seen_news,   \* main's seen_news
    top_news,    \* main's top_news of the current cycle
    new_news,    \* main's new_news of the current cycle
    idx,         \* position of the for loop of main in new_news
    page,        \* get_comments_links' page (Unset once it has returned)
    news_links,  \* main's news_links of the entry being processed
    news_html,   \* download_news_and_comments' news_html
    tasks,       \* the download_and_save coroutines given to asyncio.gather
    store,       \* files present under NEWS_DIR/<id>/
    crash,       \* exception that ended the process, or "none"
    processed,   \* history: calls of download_news_and_comments per id
    written,     \* history: files written by the current call
    sleeps,      \* history: sleeps since the last front-page fetch
    main_page_html, \* main's main_page_html (Unset before the first fetch)
    sigint       \* history: a KeyboardInterrupt has been delivered

vars == <<pc, seen_news, top_news, new_news, idx, page, news_links, news_html, tasks,
          store, crash, processed, written, sleeps, main_page_html, sigint>>

Init ==
    /\ pc = "poll"
    /\ seen_news = {}
    /\ top_news = <<>>
    /\ new_news = <<>>
    /\ idx = 1
    /\ page = Unset
    /\ news_links = {}
    /\ news_html = None
    /\ tasks = <<>>
    /\ store = [i \in Ids |-> {}]
    /\ crash = "none"
    /\ processed = [i \in Ids |-> 0]
    /\ written = {}
    /\ sleeps = 0
    /\ main_page_html = Unset
    /\ sigint = FALSE

nid == new_news[idx][1]

Settled(t) == t.st \in {"saved", "failed", "raised", "cancelled"}
InFlight(t) == ~Settled(t)

\* asyncio.run cancels every task that is still pending when main ends
CancelPending(ts) ==
    [k \in DOMAIN ts |-> IF InFlight(ts[k]) THEN [ts[k] EXCEPT !.st = "cancelled"]
                                            ELSE ts[k]]

\* ------------------------------------------------------------ main, poll
\* variant: line 115's `continue` missing, line 116 parses the None/"" page
\* and BeautifulSoup raises
PollFail_FallsThrough ==
    /\ pc = "poll"
    /\ \E r \in fetch(FrontPages) :
         /\ Falsy(r)
         /\ main_page_html' = r
    /\ pc' = "crashed"
    /\ crash' = "TypeError"
    /\ sleeps' = 0
    /\ UNCHANGED <<seen_news, top_news, new_news, idx, page, news_links, news_html,
                   tasks, store, processed, written, sigint>>

\* line 111-115: the front-page fetch returned None or ""
PollFail ==
    /\ pc = "poll"
    /\ \E r \in fetch(FrontPages) :
         /\ Falsy(r)
         /\ main_page_html' = r
    /\ pc' = "sleep"
    /\ sleeps' = 0
    /\ UNCHANGED <<seen_news, top_news, new_news, idx, page, news_links, news_html,
                   tasks, store, crash, processed, written, sigint>>

\* variant: line 128 indented into the `if new_news:` branch, a cycle without
\* new entries polls again at once
PollOk_NoSleepWhenEmpty ==
    /\ pc = "poll"
    /\ \E r \in fetch(FrontPages) :
         /\ ~Falsy(r)
         /\ main_page_html' = r
         /\ top_news' = parse_top_news(r)
         /\ new_news' = FilterNew(top_news', seen_news)
    /\ idx' = 1
    /\ pc' = IF new_news' # <<>> THEN "links" ELSE "poll"
    /\ sleeps' = 0
    /\ UNCHANGED <<seen_news, page, news_links, news_html, tasks, store,
                   crash, processed, written, sigint>>

\* line 111-119 / 125-126: the front page was fetched, parsed and filtered
PollOk ==
    /\ pc = "poll"
    /\ \E r \in fetch(FrontPages) :
         /\ ~Falsy(r)
         /\ main_page_html' = r
         /\ top_news' = parse_top_news(r)
         /\ new_news' = FilterNew(top_news', seen_news)
    /\ idx' = 1
    /\ pc' = IF new_news' # <<>> THEN "links" ELSE "sleep"
    /\ sleeps' = 0
    /\ UNCHANGED <<seen_news, page, news_links, news_html, tasks, store,
                   crash, processed, written, sigint>>

\* variant: line 108 moved into the while loop, seen_news starts empty in
\* every cycle
Sleep_ResetsSeen ==
    /\ pc = "sleep"
    /\ pc' = "poll"
    /\ sleeps' = sleeps + 1
    /\ seen_news' = {}
    /\ top_news' = <<>>
    /\ new_news' = <<>>
    /\ idx' = 1
    /\ UNCHANGED <<page, news_links, news_html, tasks, store, crash,
                   processed, written, main_page_html, sigint>>

\* line 114 / 128: asyncio.sleep(CRAWL_INTERVAL) returned.  top_news and
\* new_news are not read again before line 116-117 assigns them: the model
\* empties them here
Sleep ==
    /\ pc = "sleep"
    /\ pc' = "poll"
    /\ sleeps' = sleeps + 1
    /\ top_news' = <<>>
    /\ new_news' = <<>>
    /\ idx' = 1
    /\ UNCHANGED <<seen_news, page, news_links, news_html, tasks, store, crash,
                   processed, written,
                   main_page_html, sigint>>

\* ------------------------------------------------- get_comments_links
\* line 83-92, then line 123 and 48-49: the thread fetch returned a str;
\* the links are extracted and download_news_and_comments is called
GetCommentsLinks ==
    /\ pc = "links"
    /\ \E r \in fetch(ThreadPages) :
         /\ r # None
         /\ news_links' = ExtractLinks(r)
    /\ page' = Unset
    /\ processed' = [processed EXCEPT ![nid] = @ + 1]
    /\ news_html' = None
    /\ tasks' = <<>>
    /\ written' = {}
    /\ pc' = "primary"
    /\ UNCHANGED <<seen_news, top_news, new_news, idx, store, crash, sleeps,
                   main_page_html, sigint>>

\* line 83-87: the thread fetch returned None; BeautifulSoup(None, ...)
\* raises TypeError, which nothing catches
GetCommentsLinksNone ==
    /\ pc = "links"
    /\ None \in fetch(ThreadPages)
    /\ page' = None
    /\ pc' = "crashed"
    /\ crash' = "TypeError"
    /\ UNCHANGED <<seen_news, top_news, new_news, idx, news_links, news_html, tasks,
                   store, processed, written, sleeps,
                   main_page_html, sigint>>

\* ------------------------------------------ download_news_and_comments
\* variant: line 52's return missing, the None/"" body goes on to save_html
PrimaryFail_NoReturn ==
    /\ pc = "primary"
    /\ \E r \in fetch(PlainPages) :
         /\ Falsy(r)
         /\ news_html' = r
    /\ pc' = "save_news"
    /\ UNCHANGED <<seen_news, top_news, new_news, idx, page, news_links, tasks, store,
                   crash, processed, written, sleeps,
                   main_page_html, sigint>>

\* line 49-52: the primary fetch returned None or "": return
PrimaryFail ==
    /\ pc = "primary"
    /\ \E r \in fetch(PlainPages) :
         /\ Falsy(r)
         /\ news_html' = r
    /\ pc' = "mark"
    /\ UNCHANGED <<seen_news, top_news, new_news, idx, page, news_links, tasks, store,
                   crash, processed, written, sleeps,
                   main_page_html, sigint>>

\* line 49-53: the primary fetch returned a text; save_html is awaited
PrimaryOk ==
    /\ pc = "primary"
    /\ \E r \in fetch(PlainPages) :
         /\ ~Falsy(r)
         /\ news_html' = r
    /\ pc' = "save_news"
    /\ UNCHANGED <<seen_news, top_news, new_news, idx, page, news_links, tasks, store,
                   crash, processed, written, sleeps,
                   main_page_html, sigint>>

\* variant: line 61 without the index, every task given the same file name
MakeTasks_SameName(order) ==
    [k \in DOMAIN order |->
        [link |-> order[k], folder |-> nid, filename |-> CommentFile(1),
         st |-> "fetching", html |-> None]]

\* line 48, 59-63: one download_and_save per link, the k-th in iteration
\* order given the entry's folder and comment_<k>.html; each starts with its
\* fetch
MakeTasks(order) ==
    [k \in DOMAIN order |->
        [link |-> order[k], folder |-> nid, filename |-> CommentFile(k),
         st |-> "fetching", html |-> None]]

\* variant: line 53 missing, the fan-out starts with news.html not written
SaveNewsOk_SkipSave ==
    /\ pc = "save_news"
    /\ IF news_links = {}
       THEN /\ pc' = "mark"
            /\ tasks' = tasks
       ELSE /\ pc' = "gather"
            /\ \E order \in Orderings(news_links) : tasks' = MakeTasks(order)
    /\ UNCHANGED <<seen_news, top_news, new_news, idx, page, news_links, news_html,
                   store, written, crash, processed, sleeps, main_page_html, sigint>>

\* variant: the tasks are started without awaiting their gather
SaveNewsOk_NoAwait ==
    /\ pc = "save_news"
    /\ store' = [store EXCEPT ![nid] = @ \cup {NewsFile}]
    /\ written' = written \cup {NewsFile}
    /\ pc' = "mark"
    /\ IF news_links = {}
       THEN tasks' = tasks
       ELSE \E order \in Orderings(news_links) : tasks' = MakeTasks(order)
    /\ UNCHANGED <<seen_news, top_news, new_news, idx, page, news_links, news_html,
                   crash, processed, sleeps, main_page_html, sigint>>

\* variant: lines 53 and 54-56 swapped, the empty link set returns before
\* news.html is saved
SaveNewsOk_LinksFirst ==
    /\ pc = "save_news"
    /\ IF news_links = {}
       THEN /\ pc' = "mark"
            /\ tasks' = tasks
            /\ store' = store
            /\ written' = written
       ELSE /\ pc' = "gather"
            /\ store' = [store EXCEPT ![nid] = @ \cup {NewsFile}]
            /\ written' = written \cup {NewsFile}
            /\ \E order \in Orderings(news_links) : tasks' = MakeTasks(order)
    /\ UNCHANGED <<seen_news, top_news, new_news, idx, page, news_links, news_html,
                   crash, processed, sleeps,
                   main_page_html, sigint>>

\* line 53-63: save_html wrote news.html; without links return, otherwise
\* start the fan-out and await asyncio.gather
SaveNewsOk ==
    /\ pc = "save_news"
    /\ store' = [store EXCEPT ![nid] = @ \cup {NewsFile}]
    /\ written' = written \cup {NewsFile}
    /\ IF news_links = {}
       THEN /\ pc' = "mark"
            /\ tasks' = tasks
       ELSE /\ pc' = "gather"
            /\ \E order \in Orderings(news_links) : tasks' = MakeTasks(order)
    /\ UNCHANGED <<seen_news, top_news, new_news, idx, page, news_links, news_html,
                   crash, processed, sleeps,
                   main_page_html, sigint>>

\* line 53, 38-41: os.makedirs or the write raised OSError; nothing catches it
SaveNewsFail ==
    /\ pc = "save_news"
    /\ pc' = "crashed"
    /\ crash' = "OSError"
    /\ UNCHANGED <<seen_news, top_news, new_news, idx, page, news_links, news_html,
                   tasks, store, processed, written, sleeps,
                   main_page_html, sigint>>

\* ---------------------------------------------------- download_and_save
\* variant: line 100 written `if html is not None`, an empty body is saved
TaskFetch_NoneOnly(k) ==
    /\ pc = "gather"
    /\ tasks[k].st = "fetching"
    /\ \E r \in fetch(PlainPages) :
         tasks' = [tasks EXCEPT ![k] = [@ EXCEPT !.html = r,
                       !.st = IF r = None THEN "failed" ELSE "saving"]]
    /\ UNCHANGED <<pc, seen_news, top_news, new_news, idx, page, news_links, news_html,
                   store, crash, processed, written, sleeps, main_page_html, sigint>>

\* variant: fetch without its try/except, a failed GET raises in the task
TaskFetch_Raises(k) ==
    /\ pc = "gather"
    /\ tasks[k].st = "fetching"
    /\ \E r \in fetch(PlainPages) :
         tasks' = [tasks EXCEPT ![k] = [@ EXCEPT !.html = r,
                       !.st = IF Falsy(r) THEN "raised" ELSE "saving"]]
    /\ UNCHANGED <<pc, seen_news, top_news, new_news, idx, page, news_links, news_html,
                   store, crash, processed, written, sleeps,
                   main_page_html, sigint>>

\* line 99-103: the fetch of link k returned
TaskFetch(k) ==
    /\ pc = "gather"
    /\ tasks[k].st = "fetching"
    /\ \E r \in fetch(PlainPages) :
         tasks' = [tasks EXCEPT ![k] = [@ EXCEPT !.html = r,
                       !.st = IF Falsy(r) THEN "failed" ELSE "saving"]]
    /\ UNCHANGED <<pc, seen_news, top_news, new_news, idx, page, news_links, news_html,
                   store, crash, processed, written, sleeps,
                   main_page_html, sigint>>

\* line 101, 38-41: save_html wrote the task's file into the task's folder
TaskSaveOk(k) ==
    /\ pc = "gather"
    /\ tasks[k].st = "saving"
    /\ store' = [store EXCEPT ![tasks[k].folder] = @ \cup {tasks[k].filename}]
    /\ written' = written \cup {tasks[k].filename}
    /\ tasks' = [tasks EXCEPT ![k].st = "saved"]
    /\ UNCHANGED <<pc, seen_news, top_news, new_news, idx, page, news_links, news_html,
                   crash, processed, sleeps,
                   main_page_html, sigint>>

\* line 101, 38-41: save_html raised OSError inside task k
TaskSaveFail(k) ==
    /\ pc = "gather"
    /\ tasks[k].st = "saving"
    /\ tasks' = [tasks EXCEPT ![k].st = "raised"]
    /\ UNCHANGED <<pc, seen_news, top_news, new_news, idx, page, news_links, news_html,
                   store, crash, processed, written, sleeps,
                   main_page_html, sigint>>

\* variant: the join returns as soon as one task has finished
\* (asyncio.wait with FIRST_COMPLETED instead of asyncio.gather)
GatherReturn_First ==
    /\ pc = "gather"
    /\ \E k \in DOMAIN tasks : tasks[k].st \in {"saved", "failed"}
    /\ \A k \in DOMAIN tasks : tasks[k].st # "raised"
    /\ pc' = "mark"
    /\ UNCHANGED <<seen_news, top_news, new_news, idx, page, news_links, news_html,
                   tasks, store, crash, processed, written, sleeps,
                   main_page_html, sigint>>

\* line 63: every task finished without raising; gather returns
GatherReturn ==
    /\ pc = "gather"
    /\ \A k \in DOMAIN tasks : tasks[k].st \in {"saved", "failed"}
    /\ pc' = "mark"
    /\ UNCHANGED <<seen_news, top_news, new_news, idx, page, news_links, news_html,
                   tasks, store, crash, processed, written, sleeps,
                   main_page_html, sigint>>

\* line 63: gather (return_exceptions=False) re-raises the first exception
\* of a task; it leaves main, and asyncio.run cancels the pending tasks
GatherRaise ==
    /\ pc = "gather"
    /\ \E k \in DOMAIN tasks : tasks[k].st = "raised"
    /\ pc' = "crashed"
    /\ crash' = "OSError"
    /\ tasks' = CancelPending(tasks)
    /\ UNCHANGED <<seen_news, top_news, new_news, idx, page, news_links, news_html,
                   store, processed, written, sleeps,
                   main_page_html, sigint>>

\* -------------------------------------------------- main, after an entry
\* variant: seen_news.add only for an entry whose primary document came
Mark_OnlyOnSuccess ==
    /\ pc = "mark"
    /\ seen_news' = IF Falsy(news_html) THEN seen_news ELSE seen_news \cup {nid}
    /\ IF idx < Len(new_news)
       THEN /\ idx' = idx + 1
            /\ pc' = "links"
       ELSE /\ idx' = idx
            /\ pc' = "sleep"
    /\ news_links' = {}
    /\ news_html' = None
    /\ tasks' = <<>>
    /\ written' = {}
    /\ UNCHANGED <<top_news, new_news, page, store, crash, processed, sleeps,
                   main_page_html, sigint>>

\* line 124, then the next iteration of line 120 or line 128.  The call of
\* download_news_and_comments is over: its locals, its tasks and news_links
\* are not read again, the model empties them here
Mark ==
    /\ pc = "mark"
    /\ seen_news' = seen_news \cup {nid}
    /\ IF idx < Len(new_news)
       THEN /\ idx' = idx + 1
            /\ pc' = "links"
       ELSE /\ idx' = idx
            /\ pc' = "sleep"
    /\ news_links' = {}
    /\ news_html' = None
    /\ tasks' = <<>>
    /\ written' = {}
    /\ UNCHANGED <<top_news, new_news, page, store, crash, processed, sleeps,
                   main_page_html, sigint>>

\* variant: the interrupt is caught inside the loop (a bare `except:` around
\* the awaited call) and the process goes on
Interrupt_Swallowed ==
    /\ pc \notin {"crashed", "stopped"}
    /\ sigint' = TRUE
    /\ UNCHANGED <<pc, tasks, seen_news, top_news, new_news, idx, page, news_links,
                   news_html, store, crash, processed, written, sleeps,
                   main_page_html>>

\* line 132-135: KeyboardInterrupt ends asyncio.run, which cancels what is
\* pending; the handler prints the shutdown message
Interrupt ==
    /\ pc \notin {"crashed", "stopped"}
    /\ pc' = "stopped"
    /\ sigint' = TRUE
    /\ tasks' = CancelPending(tasks)
    /\ UNCHANGED <<seen_news, top_news, new_news, idx, page, news_links, news_html,
                   store, crash, processed, written, sleeps, main_page_html>>

Next ==
    \/ PollFail
    \/ PollOk
    \/ Sleep
    \/ GetCommentsLinks
    \/ GetCommentsLinksNone
    \/ PrimaryFail
    \/ PrimaryOk
    \/ SaveNewsOk
    \/ SaveNewsFail
    \/ \E k \in DOMAIN tasks : TaskFetch(k)
    \/ \E k \in DOMAIN tasks : TaskSaveOk(k)
    \/ \E k \in DOMAIN tasks : TaskSaveFail(k)
    \/ GatherReturn
    \/ GatherRaise
    \/ Mark
    \/ Interrupt

Spec == Init /\ [][Next]_vars

\* ------------------------------------------- parse_top_news on its own
\* line 116 alone: main_page_html is any front page of up to MaxParseRows
\* rows and top_news receives parse_top_news of it
ParsePages == SeqsUpTo(Rows, MaxParseRows)

ParseInit ==
    /\ pc = "parse"
    /\ main_page_html \in {Text(p) : p \in ParsePages}
    /\ seen_news = {}
    /\ top_news = <<>>
    /\ new_news = <<>>
    /\ idx = 1
    /\ page = Unset
    /\ news_links = {}
    /\ news_html = None
    /\ tasks = <<>>
    /\ store = [i \in Ids |-> {}]
    /\ crash = "none"
    /\ processed = [i \in Ids |-> 0]
    /\ written = {}
    /\ sleeps = 0
    /\ sigint = FALSE

ParseStep ==
    /\ pc = "parse"
    /\ top_news' = parse_top_news(main_page_html)
    /\ pc' = "parsed"
    /\ UNCHANGED <<seen_news, new_news, idx, page, news_links, news_html, tasks,
                   store, crash, processed, written, sleeps, main_page_html,
                   sigint>>

ParseNext == ParseStep

ParseSpec == ParseInit /\ [][ParseNext]_vars

TypeOK ==
    /\ pc \in {"poll", "sleep", "links", "primary", "save_news", "gather",
               "mark", "crashed", "stopped", "parse", "parsed"}
    /\ seen_news \subseteq Ids
    /\ idx \in 1..(TOP_N + 1)
    /\ crash \in {"none", "TypeError", "OSError"}

\* ids whose download_news_and_comments has been called in this run
Initiated == {i \in Ids : processed[i] > 0}

AllSettled == \A k \in DOMAIN tasks : Settled(tasks[k])

\* ===================================================================== C1
\* C1: when a cycle computes new_news, no id that is already in seen_news
\* (processed in an earlier cycle) is in it, even if top_news lists it.
C1_SeenNeverNew ==
    [][(pc = "poll" /\ pc' \in {"links", "sleep"} /\ ~Falsy(main_page_html'))
         => \A k \in DOMAIN new_news' : new_news'[k][1] \notin seen_news]_vars

\* a later cycle whose front page still lists a processed id next to a new one
C1_Witness ==
    /\ pc = "links"
    /\ idx = 1
    /\ \E k \in DOMAIN top_news : top_news[k][1] \in seen_news
    /\ \A k \in DOMAIN new_news : new_news[k][1] \notin seen_news

\* ===================================================================== C2
\* C2: download_news_and_comments is called at most once per entry id.
C2_AtMostOncePerId == \A i \in Ids : processed[i] <= 1

\* ===================================================================== C3
\* C3: when the thread fetch returned None, get_comments_links returns the
\* empty set and the process goes on.
C3_ThreadFetchFailureGivesNoLinks ==
    page = None => (pc # "crashed" /\ news_links = {})

\* ===================================================================== C4
\* C4: whatever the outcomes of the fetches and store writes, the loop is
\* never ended by an exception of its own.
C4_LoopNeverEndsItself == crash = "none"

\* ===================================================================== C5
\* C5: a failed store write ends neither the process nor the sibling tasks:
\* no OSError leaves main, and a task is cancelled only by an interrupt.
C5_StoreFailureRecovered ==
    /\ crash # "OSError"
    /\ \A k \in DOMAIN tasks : tasks[k].st = "cancelled" => pc = "stopped"

\* ===================================================================== C6
\* C6: in a fan-out, a link fetch that fails writes no file and neither
\* cancels a sibling nor ends the call; a link fetch that succeeds goes on
\* to its save; when the join returns, every link whose fetch succeeded has
\* its comment file in the container.  Only an interrupt or a raising store
\* write cancels a task or ends the call.
C6_FetchFailuresIsolated ==
    /\ \A k \in DOMAIN tasks :
         /\ tasks[k].st = "failed" =>
              Falsy(tasks[k].html) /\ CommentFile(k) \notin written
         /\ tasks[k].st = "raised" => ~Falsy(tasks[k].html)
         /\ ~Falsy(tasks[k].html) =>
              tasks[k].st \in {"saving", "saved", "raised", "cancelled"}
         /\ tasks[k].st = "cancelled" =>
              \/ pc = "stopped"
              \/ \E j \in DOMAIN tasks :
                   tasks[j].st = "raised" /\ ~Falsy(tasks[j].html)
    /\ (pc = "mark" /\ tasks # <<>>) =>
         \A k \in DOMAIN tasks :
           IF Falsy(tasks[k].html)
           THEN tasks[k].st = "failed"
           ELSE tasks[k].st = "saved" /\ CommentFile(k) \in store[nid]
    /\ (crash = "OSError" /\ tasks # <<>>) =>
         \E k \in DOMAIN tasks : tasks[k].st = "raised" /\ ~Falsy(tasks[k].html)

\* the join returned after one link fetch failed and another one was saved
C6_Witness ==
    /\ pc = "mark"
    /\ \E j, k \in DOMAIN tasks :
         /\ tasks[j].st = "failed"
         /\ tasks[k].st = "saved"
         /\ CommentFile(k) \in store[nid]
         /\ CommentFile(j) \notin written

C8_SeenIffInitiated == seen_news = Initiated

\* C8 amended: an id is in seen_news only if its download attempt has been
\* initiated, and whenever main is between entries (before a thread fetch,
\* sleeping or polling) every initiated id is in seen_news, whatever the
\* outcome of its fetches.
C8_SeenIffInitiatedBetweenEntries ==
    /\ seen_news \subseteq Initiated
    /\ pc \in {"links", "sleep", "poll"} => Initiated \subseteq seen_news

\* the cycle ended after an entry whose primary fetch failed
C8_Witness ==
    /\ pc = "sleep"
    /\ \E i \in Ids : processed[i] = 1 /\ store[i] = {} /\ i \in seen_news

\* ===================================================================== C9
\* C9: once the primary fetch has succeeded, the call has written news.html
\* into the entry's container by the time it starts the fan-out or returns,
\* for every link set and every outcome of the link fetches.
C9_NewsAlwaysWritten ==
    (~Falsy(news_html) /\ pc \in {"gather", "mark"}) =>
        (NewsFile \in written /\ NewsFile \in store[nid])

\* the call returned with the primary document fetched and no links
C9_Witness ==
    /\ pc = "mark"
    /\ ~Falsy(news_html)
    /\ news_links = {}
    /\ NewsFile \in store[nid]

\* ==================================================================== C10
\* C10: a call whose primary fetch failed writes no file and starts no link
\* fetch, whatever the link set.
C10_PrimaryFailureSavesNothing ==
    Falsy(news_html) => (written = {} /\ tasks = <<>>)

\* the call returned after a failed primary fetch, with links to download
C10_Witness ==
    /\ pc = "mark"
    /\ Falsy(news_html)
    /\ news_links # {}

\* the two results of fetch that `if not x` treats as a failure
FetchFailed(x) == x = None \/ x = EmptyStr

Processing == {"links", "primary", "save_news", "gather", "mark"}

\* ==================================================================== C11
\* C11: a front-page fetch that fails leads straight to the sleep and leaves
\* seen_news, the store and every other variable of the cycle alone: in that
\* cycle nothing is parsed, no entry is processed and no task exists.
C11_FrontPageFailureSkipsCycle ==
    /\ [](FetchFailed(main_page_html) =>
            /\ pc \in {"sleep", "poll", "stopped"}
            /\ top_news = <<>> /\ new_news = <<>> /\ tasks = <<>>)
    /\ [][(pc = "poll" /\ ~sigint' /\ FetchFailed(main_page_html'))
            => /\ pc' = "sleep"
               /\ UNCHANGED <<seen_news, store, processed, top_news, new_news,
                              tasks, written, news_links, news_html>>]_vars

\* a later cycle, with entries seen and files stored, whose poll failed
C11_Witness ==
    /\ pc = "sleep"
    /\ main_page_html = None
    /\ seen_news # {}
    /\ \E i \in Ids : store[i] # {}

\* ==================================================================== C12
\* C12: a task is in flight only while main awaits the gather of the entry it
\* belongs to; while main's own thread fetch, primary fetch or news.html
\* write is in flight, no task of any entry exists.
C12_OneEntryAtATime ==
    /\ \A k \in DOMAIN tasks :
         InFlight(tasks[k]) => (pc = "gather" /\ tasks[k].folder = nid)
    /\ pc \in {"links", "primary", "save_news"} => tasks = <<>>

\* the second entry's thread fetch is in flight after a fan-out of the first
C12_Witness ==
    /\ pc = "links"
    /\ idx = 2
    /\ new_news[1][1] # new_news[2][1]
    /\ \E f \in store[new_news[1][1]] : f # NewsFile

\* ==================================================================== C13
\* C13: new_news is top_news without the entries whose id was seen, in the
\* same relative order; the for loop takes its positions one by one, so the
\* ids of the positions before the current one are exactly those of
\* new_news that are in seen_news.
C13_FrontPageOrder ==
    /\ [](\E f \in [DOMAIN new_news -> DOMAIN top_news] :
            /\ \A i, j \in DOMAIN new_news : i < j => f[i] < f[j]
            /\ \A i \in DOMAIN new_news : new_news[i] = top_news[f[i]]
            /\ \A j \in DOMAIN top_news :
                 (\A i \in DOMAIN new_news : f[i] # j) => top_news[j][1] \in seen_news)
    /\ [](pc \in Processing =>
            /\ idx \in DOMAIN new_news
            /\ {new_news[j][1] : j \in 1..(idx - 1)} =
                 seen_news \cap {new_news[j][1] : j \in DOMAIN new_news})
    /\ [][idx' # idx => (idx' = 1 \/ (pc = "mark" /\ idx' = idx + 1))]_vars

\* the second of two different new entries is being processed
C13_Witness ==
    /\ pc = "primary"
    /\ idx = 2
    /\ new_news[1][1] # new_news[2][1]
    /\ new_news[1][1] \in seen_news
    /\ new_news[2][1] \notin seen_news

\* ==================================================================== C14
\* C14: every front-page fetch but the first is preceded by exactly one sleep
\* since the fetch before it; no sleep has happened while a cycle is under
\* way; the sleep starts with the cycle finished: either the front-page
\* fetch failed, or every new entry was processed and no task is left.
C14_OneSleepPerCycle ==
    /\ pc = "poll" => sleeps = (IF main_page_html = Unset THEN 0 ELSE 1)
    /\ pc \in Processing \cup {"sleep"} => sleeps = 0
    /\ pc = "sleep" =>
         /\ tasks = <<>>
         /\ \/ FetchFailed(main_page_html)
            \/ \A k \in DOMAIN new_news : new_news[k][1] \in seen_news

\* the next poll is due after a cycle that processed entries and slept once
C14_Witness ==
    /\ pc = "poll"
    /\ sleeps = 1
    /\ seen_news # {}
    /\ ~FetchFailed(main_page_html)

\* ==================================================================== C15
\* C15: no step removes an id from seen_news, and the only step that changes
\* it is main's line 124 for the entry just processed, with no task in
\* flight.
C15_SeenMonotone ==
    [][/\ seen_news \subseteq seen_news'
       /\ seen_news' # seen_news =>
            /\ pc = "mark"
            /\ AllSettled
            /\ seen_news' = seen_news \cup {nid}]_vars

\* both ids have been added
C15_Witness == seen_news = Ids /\ pc = "poll"

\* ==================================================================== C16
\* positions of the rows with a title link among the first n rows
ValidIn(rows, n) == {i \in 1..Min(n, Len(rows)) : rows[i].title}

C17_InterruptStopsCleanly ==
    /\ pc \in Processing \cup {"poll", "sleep"} => ENABLED Interrupt
    /\ sigint => (pc = "stopped" /\ crash = "none" /\ AllSettled)
    /\ pc = "stopped" => sigint

\* the interrupt arrived while a fan-out task was in flight
C17_Witness ==
    /\ pc = "stopped"
    /\ sigint
    /\ \E k \in DOMAIN tasks : tasks[k].st = "cancelled"

C19_NewsBeforeComments ==
    /\ \A i \in Ids : store[i] \ {NewsFile} # {} => NewsFile \in store[i]
    /\ tasks # <<>> => (NewsFile \in written /\ NewsFile \in store[nid])

\* a comment file has been written while the fan-out is still running
C19_Witness ==
    /\ pc = "gather"
    /\ \E k \in DOMAIN tasks : tasks[k].st = "saved" /\ CommentFile(k) \in store[nid]
    /\ \E k \in DOMAIN tasks : tasks[k].st = "fetching"

====
